---- MODULE Spec2Model ----
(***************************************************************************)
(* The session-scoped socket.io relay of src/src/socket.io/creation.ts.    *)
(*                                                                         *)
(* One "connection" handler runs per socket.  It reads the handshake's     *)
(* session value, rejects the socket (CONNECTION_FAILURE + disconnect) or  *)
(* joins it to the room named by the session, installs one listener per    *)
(* application tag and per lifecycle event, and emits CONNECTION_SUCCESS.  *)
(*                                                                         *)
(* The room registry is socket.io's adapter: one map from room name to a   *)
(* set of sockets.  Every socket is a member of the room named by its own  *)
(* id from the moment it connects (that is what io.to(socket.id) at lines  *)
(* 12 and 63 relies on) and leaves every room when it disconnects, before  *)
(* its 'disconnect' listeners run.  Session rooms and id rooms share the   *)
(* one key space.                                                          *)
(*                                                                         *)
(* SpecFaulty is the same relay over a broadcast that can fail.  SpecLikes *)
(* is the like list of src/src/api/services/user.ts: likeNft and unlikeNft *)
(* as a read step and a check-and-save step each.                          *)
(***************************************************************************)
EXTENDS Integers, Sequences, FiniteSets, TLC

\* ------------------------------------------------------------------ bounds
MaxConns == 3      \* sockets that ever connect
MaxSteps == 6      \* handler runs in one behaviour
MaxRequests == 3   \* likeNft / unlikeNft calls in one behaviour

Conns == 1..MaxConns

\* ------------------------------------------------------------ data values
\* socket.id: a fresh identifier the server draws for each socket.
SocketId(c) == "sock" \o ToString(c)

\* Session names clients share out of band.
SessionNames == {"abc123", "xyz789"}

\* The keys the adapter's room map can hold: every string a client may send
\* as session value, and every socket id.
RoomKeys == SessionNames \cup {"", "undefined"} \cup {SocketId(c) : c \in Conns}

\* socket.handshake.query.session: absent, or a string.
NoSession == [present |-> FALSE, value |-> ""]
Session(v) == [present |-> TRUE, value |-> v]

AppTags ==
  {"PGPS_READY", "PGPS_READY_RECEIVED", "RUN_NFT_MINT",
   "RUN_NFT_MINT_RECEIVED", "MINTING_NFT", "MINTING_NFT_RECEIVED"}
LifecycleTags == {"USER_DISCONNECT", "USER_TIMEOUT", "USER_CLOSE"}
AdmissionTags == {"CONNECTION_SUCCESS", "CONNECTION_FAILURE"}

\* Opaque application payloads.
Payloads == <<"{step:1}", "{step:2}">>
\* What the client passes in the callback position: a function, nothing, or
\* a value that is not a function.
CallbackKinds == <<"function", "absent", "nonfunction">>

TagList ==
  <<"PGPS_READY", "PGPS_READY_RECEIVED", "RUN_NFT_MINT",
    "RUN_NFT_MINT_RECEIVED", "MINTING_NFT", "MINTING_NFT_RECEIVED">>

\* The frames clients submit: every tag, and every pairing of a payload with
\* a callback kind.
Submissions ==
  {[tag |-> TagList[i], data |-> Payloads[(i % 2) + 1], cb |-> CallbackKinds[(i % 3) + 1]] :
     i \in 1..6}

FailureMsg == [msg |-> "Missing session argument"]
SuccessMsg == [msg |-> "Connection successful"]
Sentinel == 1

\* ------------------------------------------- like service: data values
Requests == 1..MaxRequests

\* The NFTs NFTService.getNFT knows: two of serie "0" (no serie) and two of
\* one serie.
NFTs ==
  {[id |-> "n1", serieId |-> "0"], [id |-> "n2", serieId |-> "0"],
   [id |-> "n3", serieId |-> "7"], [id |-> "n4", serieId |-> "7"]}

\* The nftId arguments of the calls; "n9" names no NFT.
NftIds == {"n1", "n2", "n3", "n4", "n9"}

\* null
NoNft == [id |-> "", serieId |-> ""]

\* NFTService.getNFT(nftId)
GetNFT(nftId) ==
  IF \E n \in NFTs : n.id = nftId THEN CHOOSE n \in NFTs : n.id = nftId ELSE NoNft

\* const key = {serieId: nft.serieId, nftId: nft.id}
Key(nft) == [serieId |-> nft.serieId, nftId |-> nft.id]

\* A user document: likedNFTs (hasLikes: the field is set) and the version
\* key __v that the document library keeps.
NewUser == [hasLikes |-> TRUE, likedNFTs |-> <<>>, v |-> 0]

\* A document written without the likedNFTs field.
BareUser == [hasLikes |-> FALSE, likedNFTs |-> <<>>, v |-> 0]

\* A call that has not begun
Idle == [pc |-> "idle", op |-> "none", nft |-> NoNft, user |-> NewUser]

VARIABLES
  pc,         \* pc[c]: position of c's "connection" handler
  query,      \* query[c]: the handshake's session value
  connected,  \* connected[c]: socket.connected
  listening,  \* listening[c]: the listeners of lines 19-62 are installed
  rooms,      \* io.adapter.rooms: room key -> set of member sockets
  recv,       \* recv[c]: the frames the server has written to client c
  sent,       \* sent[c]: the application frames c has submitted
  acks,       \* acks[c]: the values c's callbacks were invoked with
  errors,     \* errors[c]: exceptions thrown by c's handlers
  calls,      \* calls[c]: the calls c's tag listeners have made, in order
  steps,      \* handler runs so far
  stored,     \* the user's document in the database (services/user.ts)
  req         \* req[p]: the likeNft / unlikeNft call p

vars == <<pc, query, connected, listening, rooms, recv, sent, acks, errors, calls, steps,
          stored, req>>

\* ---------------------------------------------------------- room registry
\* Mutant of Join: the member set is written back without the members read
\* before (a lost update).
JoinOverwrite(rms, room, c) == [rms EXCEPT ![room] = {c}]

\* socket.join(room)
Join(rms, room, c) == [rms EXCEPT ![room] = @ \cup {c}]

\* Mutant of LeaveAll: the socket stays in the room of its own id.
LeaveAllButOwn(rms, c) ==
  [k \in DOMAIN rms |-> IF k = "sock" \o ToString(c) THEN rms[k] ELSE rms[k] \ {c}]

\* socket.leaveAll(), run by the library when a socket disconnects
LeaveAll(rms, c) == [k \in DOMAIN rms |-> rms[k] \ {c}]

\* Mutant of EmitTo: io.emit(...), which addresses every connected socket.
EmitToAll(rcv, rms, room, frame) ==
  [b \in DOMAIN rcv |-> IF connected[b] \/ b \in rms[room] THEN Append(rcv[b], frame) ELSE rcv[b]]

\* io.to(room).emit(...): every member of the room
EmitTo(rcv, rms, room, frame) ==
  [b \in DOMAIN rcv |-> IF b \in rms[room] THEN Append(rcv[b], frame) ELSE rcv[b]]

\* Mutant of BroadcastExcept: io.to(room).emit(...), which includes the sender.
BroadcastWithSender(rcv, rms, room, sender, frame) ==
  [b \in DOMAIN rcv |-> IF b \in rms[room] THEN Append(rcv[b], frame) ELSE rcv[b]]

\* Mutant of BroadcastExcept: the newest frame overtakes the ones queued.
BroadcastOvertaking(rcv, rms, room, sender, frame) ==
  [b \in DOMAIN rcv |->
     IF b \in rms[room] \ {sender} THEN <<frame>> \o rcv[b] ELSE rcv[b]]

\* socket.to(room).emit(...): every member of the room but the sender
BroadcastExcept(rcv, rms, room, sender, frame) ==
  [b \in DOMAIN rcv |->
     IF b \in rms[room] \ {sender} THEN Append(rcv[b], frame) ELSE rcv[b]]

\* ------------------------------------------------------------- admission
\* JavaScript's !session for an absent value or a string
Falsy(q) == ~q.present \/ q.value = ""

\* Mutant of Rejected: only `!session` is tested.
RejectedOnlyFalsy(q) == Falsy(q)

\* Mutant of Rejected: the `!session` test is left out.
RejectedOnlyPlaceholder(q) == q.present /\ q.value = "undefined"

\* line 11: !session || session === "undefined" || session === ""
Rejected(q) == Falsy(q) \/ q.value = "undefined" \/ q.value = ""

\* The room a socket relays to: `${session}`
RoomOf(c) == query[c].value

Frame(tag, data, from, seq) == [tag |-> tag, data |-> data, from |-> from, seq |-> seq]

\* Ids a client can have learnt: those of sockets whose handshake the server
\* has answered.  An id is drawn at random when its socket connects.
KnownIds == {SocketId(d) : d \in {x \in Conns : pc[x] = "done"}}

Handshakes == {NoSession} \cup {Session(v) : v \in SessionNames \cup {"", "undefined"} \cup KnownIds}

Init ==
  /\ pc = [c \in Conns |-> "new"]
  /\ query = [c \in Conns |-> NoSession]
  /\ connected = [c \in Conns |-> FALSE]
  /\ listening = [c \in Conns |-> FALSE]
  /\ rooms = [k \in RoomKeys |-> {}]
  /\ recv = [c \in Conns |-> <<>>]
  /\ sent = [c \in Conns |-> <<>>]
  /\ acks = [c \in Conns |-> <<>>]
  /\ errors = [c \in Conns |-> <<>>]
  /\ calls = [c \in Conns |-> <<>>]
  /\ steps = 0
  /\ stored = NewUser
  /\ req = [p \in Requests |-> Idle]

\* Mutant of Connect: the rejection branch emits but does not disconnect.
ConnectWithoutDisconnect(c, q) ==
  /\ pc[c] = "new"
  /\ steps < MaxSteps
  /\ steps' = steps + 1
  /\ \A d \in Conns : d < c => pc[d] # "new"
  /\ query' = [query EXCEPT ![c] = q]
  /\ connected' = [connected EXCEPT ![c] = TRUE]
  /\ LET own == Join(rooms, SocketId(c), c) IN
     IF Rejected(q)
     THEN /\ recv' = EmitTo(recv, own, SocketId(c), Frame("CONNECTION_FAILURE", FailureMsg, c, 0))
          /\ rooms' = own
          /\ pc' = [pc EXCEPT ![c] = "done"]
     ELSE /\ rooms' = Join(own, q.value, c)
          /\ pc' = [pc EXCEPT ![c] = "joined"]
          /\ recv' = recv
  /\ UNCHANGED <<listening, sent, acks, errors, calls, stored, req>>

\* io.on("connection") up to the await of line 17.  The library has put the
\* socket in the room of its own id before the handler runs.  Sockets are
\* numbered in the order in which they connect.
Connect(c, q) ==
  /\ pc[c] = "new"
  /\ steps < MaxSteps
  /\ steps' = steps + 1
  /\ \A d \in Conns : d < c => pc[d] # "new"
  /\ query' = [query EXCEPT ![c] = q]
  /\ LET own == Join(rooms, SocketId(c), c) IN
     IF Rejected(q)
     THEN \* lines 12-15: emit to the socket's own room, then disconnect
          /\ recv' = EmitTo(recv, own, SocketId(c), Frame("CONNECTION_FAILURE", FailureMsg, c, 0))
          /\ rooms' = LeaveAll(own, c)
          /\ connected' = [connected EXCEPT ![c] = FALSE]
          /\ pc' = [pc EXCEPT ![c] = "done"]
     ELSE \* line 17: join, then yield
          /\ rooms' = Join(own, q.value, c)
          /\ connected' = [connected EXCEPT ![c] = TRUE]
          /\ pc' = [pc EXCEPT ![c] = "joined"]
          /\ recv' = recv
  /\ UNCHANGED <<listening, sent, acks, errors, calls, stored, req>>

\* Mutant of Admit: CONNECTION_SUCCESS goes to the session's room,
\* io.to(session), instead of the socket's own.
AdmitAnnouncedToRoom(c) ==
  /\ pc[c] = "joined"
  /\ steps < MaxSteps
  /\ steps' = steps + 1
  /\ listening' = [listening EXCEPT ![c] = TRUE]
  /\ recv' = EmitTo(recv, rooms, RoomOf(c), Frame("CONNECTION_SUCCESS", SuccessMsg, c, 0))
  /\ pc' = [pc EXCEPT ![c] = "done"]
  /\ UNCHANGED <<query, connected, rooms, sent, acks, errors, calls, stored, req>>

\* Mutant of Admit: CONNECTION_SUCCESS is emitted but the listeners are not
\* installed.
AdmitWithoutListeners(c) ==
  /\ pc[c] = "joined"
  /\ steps < MaxSteps
  /\ steps' = steps + 1
  /\ recv' = EmitTo(recv, rooms, SocketId(c), Frame("CONNECTION_SUCCESS", SuccessMsg, c, 0))
  /\ pc' = [pc EXCEPT ![c] = "done"]
  /\ UNCHANGED <<query, connected, rooms, sent, acks, errors, listening, calls, stored, req>>

\* The handler's continuation after the await: lines 18-65.  Handlers of
\* other sockets may run between the join and this continuation.
Admit(c) ==
  /\ pc[c] = "joined"
  /\ steps < MaxSteps
  /\ steps' = steps + 1
  /\ IF rooms[RoomOf(c)] = {}
     THEN \* line 18 reads .size of a room that does not exist: the handler throws
          /\ errors' = [errors EXCEPT ![c] = Append(@, "TypeError")]
          /\ UNCHANGED <<listening, recv>>
     ELSE /\ listening' = [listening EXCEPT ![c] = TRUE]
          /\ recv' = EmitTo(recv, rooms, SocketId(c), Frame("CONNECTION_SUCCESS", SuccessMsg, c, 0))
          /\ UNCHANGED errors
  /\ pc' = [pc EXCEPT ![c] = "done"]
  /\ UNCHANGED <<query, connected, rooms, sent, acks, calls, stored, req>>

\* ----------------------------------------------------------- event relay
\* A truthy value in the callback position (`callback && ...`)
Truthy(cb) == cb # "absent"

\* Mutant of ValidCallback: the typeof test is left out.
ValidCallbackUntyped(cb) == Truthy(cb)

\* Mutant of ValidCallback: typeof is compared with a string it never yields.
ValidCallbackMistyped(cb) == Truthy(cb) /\ cb = "Function"

\* lines 20, 25, 30, 35, 40, 46:
\* const validCallback = callback && typeof callback === "function"
ValidCallback(cb) == Truthy(cb) /\ cb = "function"

\* Mutant of EmittedTag: the last listener, copied from the one before it,
\* still emits that one's tag.
EmittedTagCopied(tag) ==
  IF tag = "MINTING_NFT_RECEIVED" THEN "MINTING_NFT" ELSE tag

\* The tag each listener re-emits (lines 21, 26, 31, 36, 41, 47)
EmittedTag(tag) ==
  CASE tag = "PGPS_READY" -> "PGPS_READY"
    [] tag = "PGPS_READY_RECEIVED" -> "PGPS_READY_RECEIVED"
    [] tag = "RUN_NFT_MINT" -> "RUN_NFT_MINT"
    [] tag = "RUN_NFT_MINT_RECEIVED" -> "RUN_NFT_MINT_RECEIVED"
    [] tag = "MINTING_NFT" -> "MINTING_NFT"
    [] tag = "MINTING_NFT_RECEIVED" -> "MINTING_NFT_RECEIVED"

\* callback({ ok: true }): calling a value that is no function throws
Invoke(c, cb, seq) ==
  IF cb = "function"
  THEN /\ acks' = [acks EXCEPT ![c] = Append(@, [seq |-> seq, value |-> [ok |-> TRUE]])]
       /\ UNCHANGED errors
  ELSE /\ errors' = [errors EXCEPT ![c] = Append(@, "TypeError")]
       /\ UNCHANGED acks

\* Mutant of HandlerCalls: the callback is invoked before the emit.
HandlerCallsAckFirst(cb, n, outcome) ==
  (IF outcome # "threw" /\ ValidCallback(cb)
   THEN <<[op |-> "callback", seq |-> n, outcome |-> "ok"]>>
   ELSE <<>>)
  \o <<[op |-> "emit", seq |-> n, outcome |-> outcome]>>

\* The calls one run of a tag listener makes on the n-th frame of its
\* socket, in statement order: socket.to(...).emit(...) and then, when
\* validCallback holds and the emit has returned, callback({ ok: true }).
\* outcome is what became of the emit: "ok", "threw" or "dropped".
HandlerCalls(cb, n, outcome) ==
  <<[op |-> "emit", seq |-> n, outcome |-> outcome]>>
  \o (IF outcome # "threw" /\ ValidCallback(cb)
      THEN <<[op |-> "callback", seq |-> n, outcome |-> "ok"]>>
      ELSE <<>>)

\* The listener of an application tag (lines 19-50) run on a frame that
\* socket c submitted: forward to the room, then acknowledge.
Relay(c, tag, data, cb) ==
  /\ connected[c]
  /\ listening[c]
  /\ steps < MaxSteps
  /\ steps' = steps + 1
  /\ sent' = [sent EXCEPT ![c] = Append(@, [tag |-> tag, data |-> data, cb |-> cb])]
  /\ recv' = BroadcastExcept(recv, rooms, RoomOf(c), c,
                             Frame(EmittedTag(tag), data, c, Len(sent[c]) + 1))
  /\ calls' = [calls EXCEPT ![c] = @ \o HandlerCalls(cb, Len(sent[c]) + 1, "ok")]
  /\ IF ValidCallback(cb)
     THEN Invoke(c, cb, Len(sent[c]) + 1)
     ELSE UNCHANGED <<acks, errors>>
  /\ UNCHANGED <<pc, query, connected, listening, rooms, stored, req>>

\* What a failing socket.to(...).emit(...) can do: throw into the listener,
\* or return as usual while the adapter loses the packet.
Failures == {"threw", "dropped"}

\* The same listener when the forward fails.  Lines 19-50 hold no try/catch
\* and read no result of the emit: an exception leaves the listener before
\* line 22, and after an emit that returned the callback is invoked as ever.
RelayFault(c, tag, data, cb, outcome) ==
  /\ connected[c]
  /\ listening[c]
  /\ steps < MaxSteps
  /\ steps' = steps + 1
  /\ sent' = [sent EXCEPT ![c] = Append(@, [tag |-> tag, data |-> data, cb |-> cb])]
  /\ calls' = [calls EXCEPT ![c] = @ \o HandlerCalls(cb, Len(sent[c]) + 1, outcome)]
  /\ IF outcome = "threw"
     THEN /\ errors' = [errors EXCEPT ![c] = Append(@, "EmitError")]
          /\ UNCHANGED acks
     ELSE IF ValidCallback(cb)
          THEN Invoke(c, cb, Len(sent[c]) + 1)
          ELSE UNCHANGED <<acks, errors>>
  /\ UNCHANGED <<pc, query, connected, listening, rooms, recv, stored, req>>

\* ---------------------------------------------------- lifecycle notifier
\* The socket disconnects (client, transport or heartbeat).  The library
\* takes it out of every room and clears socket.connected, then runs the
\* 'disconnect' listener of lines 51-54.  It happens once per socket, and
\* not while the socket's own "connection" handler is suspended at line 17:
\* the await resumes before the event loop reads from a transport again.
Disconnect(c) ==
  /\ connected[c]
  /\ pc[c] = "done"
  /\ steps < MaxSteps
  /\ steps' = steps + 1
  /\ connected' = [connected EXCEPT ![c] = FALSE]
  /\ rooms' = LeaveAll(rooms, c)
  /\ recv' = IF listening[c]
             THEN BroadcastExcept(recv, rooms', RoomOf(c), c, Frame("USER_DISCONNECT", Sentinel, c, 0))
             ELSE recv
  /\ UNCHANGED <<pc, query, listening, sent, acks, errors, calls, stored, req>>

\* An event named 'timeout' reaches the socket: the listener of lines 55-58.
\* Events are dispatched to the listeners of a connected socket only.
Timeout(c) ==
  /\ connected[c]
  /\ listening[c]
  /\ steps < MaxSteps
  /\ steps' = steps + 1
  /\ recv' = BroadcastExcept(recv, rooms, RoomOf(c), c, Frame("USER_TIMEOUT", Sentinel, c, 0))
  /\ UNCHANGED <<pc, query, connected, listening, rooms, sent, acks, errors, calls, stored, req>>

\* An event named 'close' reaches the socket: the listener of lines 59-62.
Close(c) ==
  /\ connected[c]
  /\ listening[c]
  /\ steps < MaxSteps
  /\ steps' = steps + 1
  /\ recv' = BroadcastExcept(recv, rooms, RoomOf(c), c, Frame("USER_CLOSE", Sentinel, c, 0))
  /\ UNCHANGED <<pc, query, connected, listening, rooms, sent, acks, errors, calls, stored, req>>

Next ==
  \/ \E c \in Conns, q \in Handshakes : Connect(c, q)
  \/ \E c \in Conns : Admit(c)
  \/ \E c \in Conns, f \in Submissions : Relay(c, f.tag, f.data, f.cb)
  \/ \E c \in Conns : Disconnect(c)
  \/ \E c \in Conns : Timeout(c)
  \/ \E c \in Conns : Close(c)

Spec == Init /\ [][Next]_vars

\* ------------------------------------------------------- like service
relayVars == <<pc, query, connected, listening, rooms, recv, sent, acks, errors, calls, steps>>

\* lines 204-207 and 232-236: the NFT of key is among likes, by nftId for an
\* NFT of serie "0" and by serieId otherwise
Liked(likes, key) ==
  IF key.serieId = "0"
  THEN \E i \in DOMAIN likes : likes[i].nftId = key.nftId
  ELSE \E i \in DOMAIN likes : likes[i].serieId = key.serieId

\* lines 234 and 237: likedNFTs.filter(...)
Without(likes, key) ==
  IF key.serieId = "0"
  THEN SelectSeq(likes, LAMBDA x : x.nftId # key.nftId)
  ELSE SelectSeq(likes, LAMBDA x : x.serieId # key.serieId)

\* user.save() after likedNFTs.push(key): the document library sends the
\* push as an update of the stored array ($push) and increments the version
\* key; it does not compare the version.
SavePush(p, key) ==
  /\ stored' = [stored EXCEPT !.likedNFTs = Append(@, key), !.v = @ + 1]
  /\ req' = [req EXCEPT ![p].pc = "done"]

\* user.save() after an assignment to likedNFTs: the whole array is written
\* ($set), provided the stored version is still the one that was read;
\* otherwise save() rejects and the catch block rethrows.
SaveSet(p, likes) ==
  IF stored.v = req[p].user.v
  THEN /\ stored' = [hasLikes |-> TRUE, likedNFTs |-> likes, v |-> stored.v + 1]
       /\ req' = [req EXCEPT ![p].pc = "done"]
  ELSE /\ req' = [req EXCEPT ![p].pc = "threw"]
       /\ UNCHANGED stored

\* likeNft, lines 199-201: the two reads.  Calls are numbered in the order
\* in which they begin.
LikeRead(p, nftId) ==
  /\ req[p].pc = "idle"
  /\ \A o \in Requests : o < p => req[o].pc # "idle"
  /\ req' = [req EXCEPT ![p] = [pc |-> "read", op |-> "like", nft |-> GetNFT(nftId),
                                 user |-> stored]]
  /\ UNCHANGED stored
  /\ UNCHANGED relayVars

\* likeNft, lines 201-216: the checks on what was read, the change, save()
LikeSave(p) ==
  /\ req[p].pc = "read"
  /\ req[p].op = "like"
  /\ LET user == req[p].user
         nft == req[p].nft
     IN IF nft = NoNft
        THEN /\ req' = [req EXCEPT ![p].pc = "threw"]
             /\ UNCHANGED stored
        ELSE IF user.hasLikes
             THEN IF Liked(user.likedNFTs, Key(nft))
                  THEN /\ req' = [req EXCEPT ![p].pc = "threw"]
                       /\ UNCHANGED stored
                  ELSE SavePush(p, Key(nft))
             ELSE SaveSet(p, <<Key(nft)>>)
  /\ UNCHANGED relayVars

\* unlikeNft, lines 228-230
UnlikeRead(p, nftId) ==
  /\ req[p].pc = "idle"
  /\ \A o \in Requests : o < p => req[o].pc # "idle"
  /\ req' = [req EXCEPT ![p] = [pc |-> "read", op |-> "unlike", nft |-> GetNFT(nftId),
                                 user |-> stored]]
  /\ UNCHANGED stored
  /\ UNCHANGED relayVars

\* unlikeNft, lines 230-243
UnlikeSave(p) ==
  /\ req[p].pc = "read"
  /\ req[p].op = "unlike"
  /\ LET user == req[p].user
         nft == req[p].nft
     IN IF nft = NoNft \/ ~user.hasLikes \/ ~Liked(user.likedNFTs, Key(nft))
        THEN /\ req' = [req EXCEPT ![p].pc = "threw"]
             /\ UNCHANGED stored
        ELSE SaveSet(p, Without(user.likedNFTs, Key(nft)))
  /\ UNCHANGED relayVars

\* Before any call the user's document holds an empty likedNFTs or none.
InitLikes ==
  /\ pc = [c \in Conns |-> "new"]
  /\ query = [c \in Conns |-> NoSession]
  /\ connected = [c \in Conns |-> FALSE]
  /\ listening = [c \in Conns |-> FALSE]
  /\ rooms = [k \in RoomKeys |-> {}]
  /\ recv = [c \in Conns |-> <<>>]
  /\ sent = [c \in Conns |-> <<>>]
  /\ acks = [c \in Conns |-> <<>>]
  /\ errors = [c \in Conns |-> <<>>]
  /\ calls = [c \in Conns |-> <<>>]
  /\ steps = 0
  /\ stored \in {NewUser, BareUser}
  /\ req = [p \in Requests |-> Idle]

NextLikes ==
  \/ \E p \in Requests, n \in NftIds : LikeRead(p, n)
  \/ \E p \in Requests : LikeSave(p)
  \/ \E p \in Requests, n \in NftIds : UnlikeRead(p, n)
  \/ \E p \in Requests : UnlikeSave(p)

SpecLikes == InitLikes /\ [][NextLikes]_vars

\* The relay over a broadcast that can fail.
NextFaulty ==
  \/ \E c \in Conns, q \in Handshakes : Connect(c, q)
  \/ \E c \in Conns : Admit(c)
  \/ \E c \in Conns, f \in Submissions : Relay(c, f.tag, f.data, f.cb)
  \/ \E c \in Conns, f \in Submissions, o \in Failures :
       RelayFault(c, f.tag, f.data, f.cb, o)
  \/ \E c \in Conns : Disconnect(c)
  \/ \E c \in Conns : Timeout(c)
  \/ \E c \in Conns : Close(c)

SpecFaulty == Init /\ [][NextFaulty]_vars

\* ------------------------------------------------------ claim vocabulary
\* A session value the spec calls valid: present, not empty, not the
\* placeholder string.
ValidSession(q) == q.present /\ q.value # "" /\ q.value # "undefined"

\* An active connection: its transport is up and its join has been made.
Active(c) == connected[c] /\ pc[c] \in {"joined", "done"}

\* Connections a and b are active under one and the same valid session value.
Paired(a, b) ==
  /\ a # b
  /\ Active(a) /\ Active(b)
  /\ ValidSession(query[a])
  /\ query[a] = query[b]

CountTags(seq, tags) == Cardinality({i \in DOMAIN seq : seq[i].tag \in tags})

CountFrom(seq, tags, x) ==
  Cardinality({i \in DOMAIN seq : seq[i].tag \in tags /\ seq[i].from = x})

\* The step is the relay of one frame submitted by c.
Submits(c) == Len(sent'[c]) = Len(sent[c]) + 1

\* What the relay delivers for the frame c submits in this step.
Forwarded(c) ==
  LET n == Len(sent'[c]) IN Frame(sent'[c][n].tag, sent'[c][n].data, c, n)

C2_RoomIsItsJoiners ==
  /\ \A c \in Conns :
       (pc[c] # "new" /\ ValidSession(query[c])) =>
         rooms[query[c].value] = {d \in Conns : Active(d) /\ query[d] = query[c]}
  /\ \A c \in Conns : ~connected[c] => \A k \in RoomKeys : c \notin rooms[k]

\* C3: when a connection submits a frame of a recognized tag, every
\* connection paired with it under the same session receives that frame,
\* tag and payload, and the sender receives nothing.
C3_PeerNotSelf ==
  [][\A a \in Conns :
       Submits(a) =>
         /\ sent'[a][Len(sent'[a])].tag \in AppTags
         /\ recv'[a] = recv[a]
         /\ \A b \in Conns : Paired(a, b) => recv'[b] = Append(recv[b], Forwarded(a))]_vars

C3_Witness ==
  \E a, b \in Conns :
    /\ Paired(a, b)
    /\ \E i \in DOMAIN recv[b] : recv[b][i].from = a /\ recv[b][i].tag \in AppTags
    /\ \E i \in DOMAIN recv[a] : recv[a][i].from = b /\ recv[a][i].tag \in AppTags

\* C4: the relay of a frame invokes the sender's callback once, with
\* {ok: true}, when a function was supplied; with no callback or a value
\* that is no function it invokes nothing and throws nothing; the frame is
\* forwarded to the sender's room either way.  No other step acknowledges.
C4_AckIffCallback ==
  [][\A c \in Conns :
       IF Submits(c)
       THEN LET n == Len(sent'[c]) IN
            /\ acks'[c] = IF sent'[c][n].cb = "function"
                          THEN Append(acks[c], [seq |-> n, value |-> [ok |-> TRUE]])
                          ELSE acks[c]
            /\ errors'[c] = errors[c]
            /\ \A b \in rooms[RoomOf(c)] \ {c} : recv'[b] = Append(recv[b], Forwarded(c))
       ELSE acks'[c] = acks[c]]_vars

C4_Witness ==
  \E c \in Conns :
    /\ Len(sent[c]) = 2
    /\ sent[c][1].cb = "nonfunction"
    /\ sent[c][2].cb = "function"
    /\ acks[c] = <<[seq |-> 2, value |-> [ok |-> TRUE]]>>
    /\ errors[c] = <<>>
    /\ \E b \in Conns \ {c} : CountFrom(recv[b], AppTags, c) = 2

\* C5 (as claimed): over a connection's lifetime each connection receives
\* at most one lifecycle frame caused by it, whatever signals follow.
C5_OneLifecycleFrame ==
  \A x, y \in Conns : CountFrom(recv[y], LifecycleTags, x) <= 1

\* C6 (as claimed): when a peer has received a lifecycle frame caused by x,
\* x is no longer a member of its room, and x did not receive the frame.
C6_LeftBeforeNotice ==
  \A x, y \in Conns :
    CountFrom(recv[y], LifecycleTags, x) > 0 =>
      /\ x \notin rooms[RoomOf(x)]
      /\ CountFrom(recv[x], LifecycleTags, x) = 0

\* C7: a socket with a valid session value is in the room of that session
\* from its join on, has received no CONNECTION_SUCCESS while the join is
\* pending and exactly one once its handler has finished; no socket has
\* received both CONNECTION_SUCCESS and CONNECTION_FAILURE.
C7_SuccessAfterJoin ==
  \A c \in Conns :
    /\ pc[c] = "new" => recv[c] = <<>>
    /\ (ValidSession(query[c]) /\ pc[c] = "joined") =>
         /\ c \in rooms[query[c].value]
         /\ CountTags(recv[c], {"CONNECTION_SUCCESS"}) = 0
    /\ (ValidSession(query[c]) /\ pc[c] = "done") =>
         /\ CountTags(recv[c], {"CONNECTION_SUCCESS"}) = 1
         /\ connected[c] => c \in rooms[query[c].value]
    /\ ~ValidSession(query[c]) => CountTags(recv[c], {"CONNECTION_SUCCESS"}) = 0
    /\ ~(CountTags(recv[c], {"CONNECTION_SUCCESS"}) > 0 /\ CountTags(recv[c], {"CONNECTION_FAILURE"}) > 0)

C7_Witness ==
  \E c, d \in Conns :
    /\ c # d
    /\ Active(c) /\ pc[c] = "done" /\ pc[d] = "done"
    /\ query[c] = Session("abc123")
    /\ ~ValidSession(query[d])
    /\ CountTags(recv[c], {"CONNECTION_SUCCESS"}) = 1

\* C8: whatever the interleaving of two admissions to one session, both
\* connections are members of the session's room as soon as both joins are
\* made, and from then on a frame one of them submits is delivered to the
\* other, also while the other's handler is still suspended at its join.
C8_ConcurrentJoins ==
  [][\A a, b \in Conns :
       /\ Paired(a, b)' => {a, b} \subseteq rooms'[query'[a].value]
       /\ (Paired(a, b) /\ Submits(a)) =>
            /\ Len(recv'[b]) = Len(recv[b]) + 1
            /\ recv'[b][Len(recv'[b])] = Forwarded(a)]_vars

C8_Witness ==
  \E a, b \in Conns :
    /\ Paired(a, b)
    /\ a < b
    /\ pc[a] = "joined" /\ pc[b] = "done"
    /\ CountFrom(recv[a], AppTags, b) > 0

\* C9: when the sender is the only member of its room and supplied a
\* callback, the relay of its frame delivers nothing to any connection,
\* throws nothing, and invokes the callback with {ok: true}.
C9_AloneStillAcked ==
  [][\A c \in Conns :
       (/\ Submits(c)
        /\ rooms[RoomOf(c)] = {c}
        /\ sent'[c][Len(sent'[c])].cb = "function") =>
         /\ recv' = recv
         /\ errors' = errors
         /\ acks'[c] = Append(acks[c], [seq |-> Len(sent'[c]), value |-> [ok |-> TRUE]])]_vars

C9_Witness ==
  \E c \in Conns :
    /\ rooms[RoomOf(c)] = {c}
    /\ Len(sent[c]) = 1
    /\ acks[c] = <<[seq |-> 1, value |-> [ok |-> TRUE]]>>
    /\ errors[c] = <<>>
    /\ \A b \in Conns : CountFrom(recv[b], AppTags, c) = 0

RoomsOf(c) == {k \in RoomKeys : c \in rooms[k]}

C14_ForwardedVerbatim ==
  \A b \in Conns :
    \A i \in DOMAIN recv[b] :
      recv[b][i].tag \in AppTags =>
        LET a == recv[b][i].from
            n == recv[b][i].seq
        IN /\ a # b
           /\ n \in DOMAIN sent[a]
           /\ sent[a][n].tag = recv[b][i].tag
           /\ sent[a][n].data = recv[b][i].data
           /\ RoomOf(a) \in {RoomOf(b), SocketId(b)}

C14_Witness ==
  \E a, b \in Conns :
    /\ a # b
    /\ Len(recv[b]) = 3
    /\ recv[b][2] = Frame("MINTING_NFT_RECEIVED", "{step:1}", a, 1)
    /\ recv[b][3] = Frame("PGPS_READY", "{step:2}", a, 2)

\* C16 (as claimed): an application or lifecycle frame is delivered only
\* to connections whose session value is that of the connection it comes
\* from.
C16_RoomsIsolated ==
  \A b \in Conns :
    \A i \in DOMAIN recv[b] :
      recv[b][i].tag \in AppTags \cup LifecycleTags =>
        query[recv[b][i].from] = query[b]

\* C17: a CONNECTION_SUCCESS or CONNECTION_FAILURE frame is received only
\* by the connection it was emitted for.
C17_AdmissionPrivate ==
  \A b \in Conns :
    \A i \in DOMAIN recv[b] :
      recv[b][i].tag \in AdmissionTags => recv[b][i].from = b

C17_Witness ==
  \E c, d \in Conns :
    /\ c # d
    /\ query[d] = Session(SocketId(c))
    /\ CountTags(recv[c], AdmissionTags) = 1
    /\ CountTags(recv[d], {"CONNECTION_SUCCESS"}) = 1

\* C18: a connection that has received CONNECTION_SUCCESS has its
\* listeners installed, and while it is connected the relay of any
\* recognized frame it submits can run; a connection has submitted and
\* caused frames only after its admission was completed.
C18_ListeningOnceAdmitted ==
  \A c \in Conns :
    /\ CountTags(recv[c], {"CONNECTION_SUCCESS"}) > 0 =>
         /\ listening[c] /\ pc[c] = "done"
         /\ (connected[c] /\ steps < MaxSteps) =>
              /\ c \in rooms[RoomOf(c)]
              /\ \A f \in Submissions : ENABLED Relay(c, f.tag, f.data, f.cb)
    /\ sent[c] # <<>> => CountTags(recv[c], {"CONNECTION_SUCCESS"}) > 0
    /\ \A b \in Conns :
         CountFrom(recv[b], AppTags \cup LifecycleTags, c) > 0 =>
           CountTags(recv[c], {"CONNECTION_SUCCESS"}) > 0

C18_Witness ==
  \E c, b \in Conns :
    /\ c # b
    /\ recv[c] = <<Frame("CONNECTION_SUCCESS", SuccessMsg, c, 0)>>
    /\ Len(sent[c]) = 1
    /\ connected[c]
    /\ CountFrom(recv[b], AppTags, c) = 1

\* C19: a rejected connection has received its CONNECTION_FAILURE and
\* nothing else, has no listeners, has had no frame relayed or
\* acknowledged, and no other connection has received any frame caused by it.
C19_RejectedInert ==
  \A c \in Conns :
    (pc[c] # "new" /\ ~ValidSession(query[c])) =>
      /\ recv[c] = <<Frame("CONNECTION_FAILURE", FailureMsg, c, 0)>>
      /\ ~listening[c]
      /\ sent[c] = <<>> /\ acks[c] = <<>>
      /\ \A f \in Submissions : ~ENABLED Relay(c, f.tag, f.data, f.cb)
      /\ ~ENABLED Disconnect(c)
      /\ \A b \in Conns \ {c} : \A i \in DOMAIN recv[b] : recv[b][i].from # c

C19_Witness ==
  \E c, d \in Conns :
    /\ c # d
    /\ ~ValidSession(query[c]) /\ pc[c] = "done"
    /\ query[d] = Session(SocketId(c))
    /\ Len(sent[d]) > 0

\* C15: every acknowledgment {ok: true} a sender has been given for a frame
\* was issued by a callback call that its listener made after it had handed
\* the forward of that same frame to the broadcast.
C15_AckAfterForward ==
  \A c \in Conns :
    /\ \A j \in DOMAIN calls[c] :
         calls[c][j].op = "callback" =>
           \E i \in 1..(j - 1) :
             calls[c][i].op = "emit" /\ calls[c][i].seq = calls[c][j].seq
    /\ \A k \in DOMAIN acks[c] :
         \E j \in DOMAIN calls[c] :
           calls[c][j].op = "callback" /\ calls[c][j].seq = acks[c][k].seq

C15_Witness ==
  \E a \in Conns, b \in Conns :
    /\ a # b
    /\ Len(acks[a]) = 1
    /\ acks[a][1] = [seq |-> 1, value |-> [ok |-> TRUE]]
    /\ sent[a][1].cb = "function"
    /\ \E i \in DOMAIN recv[b] : recv[b][i] = Frame(sent[a][1].tag, sent[a][1].data, a, 1)

\* C11 (as claimed): when the forward of a frame has failed, no connection
\* has received that frame, the sender holds no acknowledgment {ok: true}
\* for it, and the failure has not left the listener as an exception.
C11_FailureWithheld ==
  \A c \in Conns :
    \A i \in DOMAIN calls[c] :
      (calls[c][i].op = "emit" /\ calls[c][i].outcome \in Failures) =>
        /\ \A b \in Conns : \A k \in DOMAIN recv[b] :
             ~(recv[b][k].from = c /\ recv[b][k].seq = calls[c][i].seq)
        /\ \A k \in DOMAIN acks[c] :
             ~(acks[c][k].seq = calls[c][i].seq /\ acks[c][k].value = [ok |-> TRUE])
        /\ "EmitError" \notin {errors[c][k] : k \in DOMAIN errors[c]}

\* The same NFT for the like list: same nftId for NFTs of serie "0", same
\* serieId otherwise.
SameNft(x, y) ==
  IF x.serieId = "0" \/ y.serieId = "0"
  THEN x.nftId = y.nftId
  ELSE x.serieId = y.serieId

\* C20 (as claimed): the stored likedNFTs never holds the same NFT at two
\* positions, whatever the interleaving of the calls' reads and saves, and
\* a likeNft call that read a list already holding its NFT has thrown once
\* it is over.
C20_NoDoubleLike ==
  /\ \A i \in DOMAIN stored.likedNFTs : \A j \in DOMAIN stored.likedNFTs :
       i < j => ~SameNft(stored.likedNFTs[i], stored.likedNFTs[j])
  /\ \A p \in Requests :
       (req[p].op = "like" /\ req[p].pc \in {"done", "threw"} /\ req[p].nft # NoNft
          /\ Liked(req[p].user.likedNFTs, Key(req[p].nft))) => req[p].pc = "threw"
====
